---- MODULE Spec2Model ----
(***************************************************************************)
(* predict_model.py: predict_on_new_data, the one-shot prediction pipeline *)
(* load bundle -> read input -> check features -> preprocess -> predict -> *)
(* group -> validate -> write.                                             *)
(*                                                                         *)
(* A table is [cols, n, cell]: the set of column names, the number of rows *)
(* and cell[c][i], the cell of column c in row i.  A cell is a record      *)
(* [k, n, s]: a number (k = "num", value n), a string (k = "str", text s)  *)
(* or the missing marker np.nan (k = "nan").                               *)
(*                                                                         *)
(* Risk_Score is exp of the Cox linear predictor; quantile binning reads   *)
(* only the order of the scores (every interpolated edge lies between two  *)
(* neighbouring order statistics), so the model keeps the linear predictor *)
(* itself, an integer, and computes the quantile edges exactly.            *)
(***************************************************************************)
EXTENDS Integers, Sequences, FiniteSets

VARIABLES pc, done, failed_stage, missing_cols, model_components, input_table,
          new_data, pre_map, c_index_computed, output_csv

vars == <<pc, done, failed_stage, missing_cols, model_components, input_table,
          new_data, pre_map, c_index_computed, output_csv>>

\* ------------------------------------------------------------------ bounds
MaxRows == 2
MaxLen == 5
MaxScore == 3

\* ------------------------------------------------------------------- cells
NaN == [k |-> "nan", n |-> 0, s |-> ""]
Num(x) == [k |-> "num", n |-> x, s |-> ""]
Str(t) == [k |-> "str", n |-> 0, s |-> t]

IsNaN(c) == c.k = "nan"

Range(f) == {f[i] : i \in DOMAIN f}

\* ------------------------------------------------------------------ tables
EmptyTable == [cols |-> {}, n |-> 0, cell |-> <<>>]

\* new_data[[c for c in order if c in new_data.columns]]
Project(t, keep) ==
    [cols |-> t.cols \cap keep, n |-> t.n,
     cell |-> [c \in t.cols \cap keep |-> t.cell[c]]]

\* new_data[name] = column
SetColumn(t, name, column) ==
    [cols |-> t.cols \cup {name}, n |-> t.n,
     cell |-> [c \in t.cols \cup {name} |-> IF c = name THEN column ELSE t.cell[c]]]

\* new_data[col].isna().any()
AnyNaN(t, c) == \E i \in 1..t.n : IsNaN(t.cell[c][i])

\* --------------------------------------------------- 2. required features
SurvivalColumns == {"OS_Time", "Event"}

\* a plausible slip: the absent names taken over required_cols (line 45)
MissingColsOverRequired(best_features, columns) ==
    SelectSeq(best_features \o <<"OS_Time", "Event">>, LAMBDA col : col \notin columns)

\* missing_cols = [col for col in best_features if col not in new_data.columns]
MissingCols(best_features, columns) ==
    SelectSeq(best_features, LAMBDA col : col \notin columns)

\* required_cols = best_features + ['OS_Time', 'Event']
RequiredCols(best_features) == Range(best_features) \cup SurvivalColumns

\* ------------------------------------------------------- 3. preprocessing
\* "U+FF1F" stands for the one-character string holding the full-width
\* question mark of the source, which a TLA+ string cannot spell
missing_values == {"NA", "/", "unknown", "U+FF1F", "nan", "NaN", ""}

IsToken(c) == c.k = "str" /\ c.s \in missing_values

\* a plausible slip: "/" left out of the token list
ReplaceCellNoSlash(c) ==
    IF c.k = "str" /\ c.s \in (missing_values \ {"/"}) THEN NaN ELSE c

\* DataFrame.replace(missing_values, np.nan), one cell
ReplaceCell(c) == IF c.k = "str" /\ c.s \in missing_values THEN NaN ELSE c

\* new_data = new_data.replace(missing_values, np.nan): every cell of the frame
ReplaceMissing(t) ==
    [t EXCEPT !.cell = [c \in t.cols |-> [i \in 1..t.n |-> ReplaceCell(t.cell[c][i])]]]

\* the strings float() parses, by value
NumericStrings == [s \in {"0", "1", "2", "3"} |->
    CASE s = "0" -> 0 [] s = "1" -> 1 [] s = "2" -> 2 [] s = "3" -> 3]

\* pd.to_numeric(x, errors='coerce'), one cell
ToNumeric(c) ==
    IF c.k = "str"
    THEN IF c.s \in DOMAIN NumericStrings THEN Num(NumericStrings[c.s]) ELSE NaN
    ELSE c

\* Series.fillna(v), one cell
FillNa(c, v) == IF IsNaN(c) THEN v ELSE c

\* numeric_in_model / categorical_in_model
InModel(features, t) == features \cap t.cols

\* for col in numeric_in_model: new_data[col] = pd.to_numeric(..., errors='coerce')
CoerceNumeric(t, numeric_in_model) ==
    [t EXCEPT !.cell = [c \in t.cols |->
        IF c \in numeric_in_model
        THEN [i \in 1..t.n |-> ToNumeric(t.cell[c][i])]
        ELSE t.cell[c]]]

\* SimpleImputer.transform on a one-column frame raises unless fitted on one column
ImputerFits(imputer) == imputer.n_features_in = 1

\* some column of cs has a missing entry, so imputer.transform is called
NeedsImputer(t, cs) == \E c \in cs : AnyNaN(t, c)

\* for col in cs: if new_data[col].isna().any(): new_data[[col]] = imputer.transform(...)
Impute(t, cs, imputer) ==
    [t EXCEPT !.cell = [c \in t.cols |->
        IF c \in cs /\ AnyNaN(t, c)
        THEN [i \in 1..t.n |-> FillNa(t.cell[c][i], imputer.statistics)]
        ELSE t.cell[c]]]

\* a plausible slip: the fillna(-1) after map() forgotten
MapCellNoFill(mapping, c) == IF c \in DOMAIN mapping THEN Num(mapping[c]) ELSE NaN

\* new_data[col].map(mapping).fillna(-1), one cell
MapCell(mapping, c) == IF c \in DOMAIN mapping THEN Num(mapping[c]) ELSE Num(-1)

\* for col, mapping in manual_mappings.items(): if col in new_data.columns: ...
ApplyMappings(t, manual_mappings) ==
    [t EXCEPT !.cell = [c \in t.cols |->
        IF c \in DOMAIN manual_mappings
        THEN [i \in 1..t.n |-> MapCell(manual_mappings[c], t.cell[c][i])]
        ELSE t.cell[c]]]

\* pd.to_numeric(new_data['ECOG_Score'], errors='coerce').fillna(-1), one cell
CoerceECOGCell(c) == FillNa(ToNumeric(c), Num(-1))

\* if 'ECOG_Score' in new_data.columns: new_data['ECOG_Score'] = ...
CoerceECOG(t) ==
    [t EXCEPT !.cell = [c \in t.cols |->
        IF c = "ECOG_Score"
        THEN [i \in 1..t.n |-> CoerceECOGCell(t.cell[c][i])]
        ELSE t.cell[c]]]

\* the table after steps 1-2 (sentinel replacement, numeric coercion)
Coerced(mc, t) ==
    CoerceNumeric(ReplaceMissing(t), InModel(mc.pure_numeric_features, t))

\* ... after numeric imputation
NumericImputed(mc, t) ==
    Impute(Coerced(mc, t), InModel(mc.pure_numeric_features, t), mc.imputer_numeric)

\* ... after categorical imputation: the table the mappings are applied to
CategoricalImputed(mc, t) ==
    Impute(NumericImputed(mc, t), InModel(mc.categorical_features, t),
           mc.imputer_categorical)

\* an imputer is called on a column it was not fitted for
PreprocessRaises(mc, t) ==
    \/ /\ NeedsImputer(Coerced(mc, t), InModel(mc.pure_numeric_features, t))
       /\ ~ImputerFits(mc.imputer_numeric)
    \/ /\ NeedsImputer(NumericImputed(mc, t), InModel(mc.categorical_features, t))
       /\ ~ImputerFits(mc.imputer_categorical)

Preprocessed(mc, t) ==
    CoerceECOG(ApplyMappings(CategoricalImputed(mc, t), mc.manual_mappings))

\* ------------------------------------------------------------ 4. predict
\* the sum of coefficient * value over best_features[k..], row i
RECURSIVE LinearPredictor(_, _, _, _)
LinearPredictor(mc, t, i, k) ==
    IF k > Len(mc.best_features) THEN 0
    ELSE mc.cox_model.params[mc.best_features[k]] * t.cell[mc.best_features[k]][i].n
         + LinearPredictor(mc, t, i, k + 1)

\* predict_partial_hazard raises on a frame holding a non-numeric value
PredictRaises(mc, t) ==
    \E f \in Range(mc.best_features) : \E i \in 1..t.n : t.cell[f][i].k = "str"

\* cox_model.predict_partial_hazard(new_data[best_features]), row i
\* (the linear predictor stands for its exponential; a missing input gives nan)
PartialHazard(mc, t, i) ==
    IF \E f \in Range(mc.best_features) : IsNaN(t.cell[f][i])
    THEN NaN
    ELSE Num(LinearPredictor(mc, t, i, 1))

\* new_data['Risk_Score'] = risk_scores.values.flatten()
WithRiskScore(mc, t) ==
    SetColumn(t, "Risk_Score", [i \in 1..t.n |-> PartialHazard(mc, t, i)])

\* ----------------------------------------------------------- 5. grouping
\* the rows whose score is not nan (qcut and nunique drop nan)
Valid(xs) == {i \in DOMAIN xs : ~IsNaN(xs[i])}

\* new_data['Risk_Score'].nunique()
NUnique(xs) == Cardinality({xs[i].n : i \in Valid(xs)})

\* the k-th smallest valid score, k counted from 0
OrderStat(xs, k) ==
    CHOOSE v \in {xs[i].n : i \in Valid(xs)} :
        /\ Cardinality({i \in Valid(xs) : xs[i].n < v}) <= k
        /\ k < Cardinality({i \in Valid(xs) : xs[i].n <= v})

\* Series.quantile(j/q), linear interpolation at position (m-1)*j/q, times q
QuantileEdge(xs, q, j) ==
    LET m == Cardinality(Valid(xs))
        pos == (m - 1) * j
        lo == OrderStat(xs, pos \div q)
        hi == IF pos % q = 0 THEN lo ELSE OrderStat(xs, (pos \div q) + 1)
    IN  q * lo + (pos % q) * (hi - lo)

\* the bin edges of qcut(q=q, duplicates='drop'): the unique quantiles, times q
BinEdges(xs, q) == {QuantileEdge(xs, q, j) : j \in 0..q}

\* _bins_to_cuts: "Bin labels must be one fewer than the number of bin edges"
QcutRaises(xs, q, labels) == Len(labels) # Cardinality(BinEdges(xs, q)) - 1

\* bins.searchsorted(x, side='left'), with include_lowest
QcutId(xs, q, x) ==
    IF \A e \in BinEdges(xs, q) : q * x <= e THEN 1
    ELSE Cardinality({e \in BinEdges(xs, q) : e < q * x})

\* the label of one score
QcutCell(xs, q, labels, c) ==
    IF IsNaN(c) THEN NaN
    ELSE LET id == QcutId(xs, q, c.n)
         IN  IF id = 0 \/ id = Cardinality(BinEdges(xs, q)) THEN NaN
             ELSE Str(labels[id])

\* a plausible slip: the labels listed out of order
TertileLabelsSwapped == <<"Low", "High", "Medium">>

TertileLabels == <<"Low", "Medium", "High">>

MedianLabels == <<"Low", "High">>

\* the cascade on unique_scores: which qcut, if any, runs
GroupQ(xs) == IF NUnique(xs) >= 3 THEN 3 ELSE IF NUnique(xs) = 2 THEN 2 ELSE 0

GroupLabels(xs) == IF GroupQ(xs) = 3 THEN TertileLabels ELSE MedianLabels

GroupRaises(xs) == GroupQ(xs) # 0 /\ QcutRaises(xs, GroupQ(xs), GroupLabels(xs))

\* new_data['Risk_Group']
RiskGroup(xs) ==
    IF GroupQ(xs) = 0 THEN [i \in DOMAIN xs |-> Str("Medium")]
    ELSE [i \in DOMAIN xs |-> QcutCell(xs, GroupQ(xs), GroupLabels(xs), xs[i])]

\* --------------------------------------------------------- 6. validation
\* a plausible slip: only one of the two columns looked for
HasSurvivalEventOnly(t) == "Event" \in t.cols

\* if 'Event' in new_data.columns and 'OS_Time' in new_data.columns
HasSurvival(t) == "Event" \in t.cols /\ "OS_Time" \in t.cols

\* lifelines: the pairs (i, j) the index compares: i had the event, and j
\* lived longer or was censored at the same time
AdmissiblePairs(t) ==
    {p \in (1..t.n) \X (1..t.n) :
        /\ t.cell["Event"][p[1]].n # 0
        /\ \/ t.cell["OS_Time"][p[1]].n < t.cell["OS_Time"][p[2]].n
           \/ /\ t.cell["OS_Time"][p[1]].n = t.cell["OS_Time"][p[2]].n
              /\ t.cell["Event"][p[2]].n = 0}

\* concordance_index raises: a column that is not there, a value that is no
\* number ("NaNs detected in inputs"), or no admissible pair
ConcordanceRaises(t) ==
    \/ ~({"OS_Time", "Event", "Risk_Score"} \subseteq t.cols)
    \/ \E c \in {"OS_Time", "Event", "Risk_Score"} :
           \E i \in 1..t.n : IsNaN(ToNumeric(t.cell[c][i]))
    \/ AdmissiblePairs(t) = {}

\* ----------------------------------------------------------------- inputs
FeatureNames == {"T_Stage", "ECOG_Score"}

BestFeatureChoices == {<<"T_Stage">>, <<"ECOG_Score">>, <<"T_Stage", "ECOG_Score">>}

\* one manual mapping: raw category -> code
CategoryCodes ==
    [c \in {Str("T1"), Str("T2")} |-> IF c.s = "T1" THEN 0 ELSE 1]

\* the fitted imputers: n_features_in columns seen at fit, statistics the fill
NumericImputers ==
    {[n_features_in |-> 1, statistics |-> Num(2)],
     [n_features_in |-> 2, statistics |-> Num(2)]}

CategoricalImputers ==
    {[n_features_in |-> 1, statistics |-> Str("T2")],
     [n_features_in |-> 1, statistics |-> Str("unknown")],
     [n_features_in |-> 2, statistics |-> Str("T2")]}

\* the bundles: the feature lists name best features only (a list entry that
\* is no kept column is never used); a numeric feature is neither categorical
\* nor mapped; the two imputers were fitted on frames of the same width
Bundles ==
    {[best_features |-> bf,
      pure_numeric_features |-> nf,
      categorical_features |-> cf,
      manual_mappings |-> [c \in mk |-> CategoryCodes],
      imputer_numeric |-> ni,
      imputer_categorical |-> ci,
      cox_model |-> [params |-> [f \in FeatureNames |-> 1]]] :
        bf \in BestFeatureChoices, nf \in SUBSET FeatureNames,
        cf \in SUBSET FeatureNames, mk \in SUBSET FeatureNames,
        ni \in NumericImputers, ci \in CategoricalImputers}

WellFormedBundle(mc) ==
    /\ mc.pure_numeric_features \subseteq Range(mc.best_features)
    /\ mc.categorical_features \subseteq Range(mc.best_features)
    /\ DOMAIN mc.manual_mappings \subseteq Range(mc.best_features)
    /\ mc.pure_numeric_features \cap mc.categorical_features = {}
    /\ mc.pure_numeric_features \cap DOMAIN mc.manual_mappings = {}
    /\ mc.imputer_numeric.n_features_in = mc.imputer_categorical.n_features_in

\* what a cell of a feature column may hold as read from the sheet
CellValues == {Num(1), Str("T1"), Str("/"), NaN}

PlainColumn(n) == [i \in 1..n |-> Num(1)]

\* the feature columns of an input of n rows: the names in cs, the cells of
\* column r as given, every other column plain
FeatureColumns(n, cs, r, col) == [c \in cs |-> IF c = r THEN col ELSE PlainColumn(n)]

\* the survival columns of an input of n rows: none, one, or both with every
\* patient dead (e = 1) or every patient censored (e = 0)
SurvivalColumnChoices(n) ==
    {<<>>,
     [c \in {"OS_Time"} |-> [i \in 1..n |-> Num(i)]],
     [c \in {"Event"} |-> [i \in 1..n |-> Num(1)]]}
    \cup {[c \in {"OS_Time", "Event"} |->
              [i \in 1..n |-> IF c = "OS_Time" THEN Num(i) ELSE Num(e)]] : e \in {0, 1}}

\* a table of n rows from its feature columns f and its survival columns g
MakeTable(n, f, g) ==
    [cols |-> DOMAIN f \cup DOMAIN g, n |-> n,
     cell |-> [c \in DOMAIN f \cup DOMAIN g |-> IF c \in DOMAIN f THEN f[c] ELSE g[c]]]

\* a column the bundle does not use is dropped unread: keep it plain
RelevantInput(mc, t) ==
    \A c \in (t.cols \cap FeatureNames) \ Range(mc.best_features) :
        t.cell[c] = PlainColumn(t.n)

\* a bundle of one feature that is in no list: its cells reach the model as read
GroupBundle ==
    [best_features |-> <<"T_Stage">>,
     pure_numeric_features |-> {},
     categorical_features |-> {},
     manual_mappings |-> <<>>,
     imputer_numeric |-> [n_features_in |-> 1, statistics |-> Num(2)],
     imputer_categorical |-> [n_features_in |-> 1, statistics |-> Str("T2")],
     cox_model |-> [params |-> [f \in FeatureNames |-> 1]]]

ScoreCells == {NaN} \cup {Num(v) : v \in 1..MaxScore}

\* the csv text of a table is its fields in writing order: the column names,
\* then the cells row by row
NFields(t) == Cardinality(t.cols) * (t.n + 1)

\* predictions_with_risk.csv: whether it exists and, of the text of the table
\* being written, how far the bytes on disk reach: the first `fields` fields
\* whole and, when `cut`, some but not all bytes of the next one
NoFile == [exists |-> FALSE, data |-> EmptyTable, fields |-> 0, cut |-> FALSE]

WholeFile(t) == [exists |-> TRUE, data |-> t, fields |-> NFields(t), cut |-> FALSE]

\* os.makedirs(output_dir, exist_ok=True) takes the directory as it is: it may
\* hold the file of an earlier run, here the result for one other patient
PriorTable ==
    [cols |-> {"T_Stage", "Risk_Score", "Risk_Group"}, n |-> 1,
     cell |-> [c \in {"T_Stage", "Risk_Score", "Risk_Group"} |->
                 [i \in 1..1 |-> IF c = "Risk_Group" THEN Str("Medium") ELSE Num(9)]]]

PriorFile == WholeFile(PriorTable)

\* the files a write of t that stops at some byte can leave: from the empty
\* file (no byte written) through a cut header and a cut row to all but the
\* end of the last field
CutFiles(t) ==
    {[exists |-> TRUE, data |-> t, fields |-> j, cut |-> b] :
        j \in 0..(NFields(t) - 1), b \in BOOLEAN}

StageOrder ==
    <<"load", "read", "check", "preprocess", "predict", "group", "validate", "write">>

\* ------------------------------------------------------------------- Init
Init ==
    /\ pc = "load"
    /\ done = <<>>
    /\ failed_stage = "none"
    /\ missing_cols = <<>>
    /\ \/ /\ model_components \in {mc \in Bundles : WellFormedBundle(mc)}
          /\ \E n \in 1..MaxRows : \E cs \in SUBSET FeatureNames :
             \E r \in FeatureNames : \E col \in [1..n -> CellValues] :
             \E g \in SurvivalColumnChoices(n) :
                /\ input_table = MakeTable(n, FeatureColumns(n, cs, r, col), g)
                /\ RelevantInput(model_components, input_table)
       \* longer inputs for the bundle of one unlisted feature: every cell a
       \* number, no survival column
       \/ /\ model_components = GroupBundle
          /\ \E n \in 1..MaxLen : \E col \in [1..n -> ScoreCells \ {NaN}] :
                input_table = MakeTable(n, [c \in {"T_Stage"} |-> col], <<>>)
    /\ new_data = EmptyTable
    /\ pre_map = EmptyTable
    /\ c_index_computed = FALSE
    /\ output_csv \in {NoFile, PriorFile}

\* ---------------------------------------------------------------- actions
\* an exception leaves the function: nothing runs after it
Abort(stage) ==
    /\ pc' = "failed"
    /\ failed_stage' = stage

\* the stage returned: the next one starts
Advance(stage, next) ==
    /\ pc' = next
    /\ done' = Append(done, stage)
    /\ failed_stage' = failed_stage

\* joblib.load(model_pkl_path): the file may be missing or corrupt
LoadBundle ==
    /\ pc = "load"
    /\ \E ok \in BOOLEAN :
          IF ok THEN Advance("load", "read")
          ELSE Abort("load") /\ done' = done
    /\ UNCHANGED <<missing_cols, model_components, input_table, new_data, pre_map,
                   c_index_computed, output_csv>>

\* pd.read_excel(input_excel_path): the file may be missing or no spreadsheet
ReadInput ==
    /\ pc = "read"
    /\ \E ok \in BOOLEAN :
          IF ok THEN Advance("read", "check") /\ new_data' = input_table
          ELSE Abort("read") /\ done' = done /\ new_data' = new_data
    /\ UNCHANGED <<missing_cols, model_components, input_table, pre_map,
                   c_index_computed, output_csv>>

\* 2. check required features, then keep the required columns
CheckFeatures ==
    /\ pc = "check"
    /\ LET missing == MissingCols(model_components.best_features, new_data.cols)
       IN  IF missing # <<>>
           THEN /\ Abort("check")
                /\ missing_cols' = missing
                /\ UNCHANGED <<done, new_data>>
           ELSE /\ Advance("check", "preprocess")
                /\ new_data' = Project(new_data, RequiredCols(model_components.best_features))
                /\ missing_cols' = missing_cols
    /\ UNCHANGED <<model_components, input_table, pre_map, c_index_computed, output_csv>>

\* 3. preprocessing
Preprocess ==
    /\ pc = "preprocess"
    /\ IF PreprocessRaises(model_components, new_data)
       THEN /\ Abort("preprocess")
            /\ UNCHANGED <<done, new_data, pre_map>>
       ELSE /\ Advance("preprocess", "predict")
            /\ pre_map' = CategoricalImputed(model_components, new_data)
            /\ new_data' = Preprocessed(model_components, new_data)
    /\ UNCHANGED <<missing_cols, model_components, input_table, c_index_computed,
                   output_csv>>

\* 4. predict Risk_Score
Predict ==
    /\ pc = "predict"
    /\ IF PredictRaises(model_components, new_data)
       THEN /\ Abort("predict")
            /\ UNCHANGED <<done, new_data>>
       ELSE /\ Advance("predict", "group")
            /\ new_data' = WithRiskScore(model_components, new_data)
    /\ UNCHANGED <<missing_cols, model_components, input_table, pre_map,
                   c_index_computed, output_csv>>

\* 5. risk grouping
Group ==
    /\ pc = "group"
    /\ IF GroupRaises(new_data.cell["Risk_Score"])
       THEN /\ Abort("group")
            /\ UNCHANGED <<done, new_data>>
       ELSE /\ Advance("group", "validate")
            /\ new_data' = SetColumn(new_data, "Risk_Group",
                                     RiskGroup(new_data.cell["Risk_Score"]))
    /\ UNCHANGED <<missing_cols, model_components, input_table, pre_map,
                   c_index_computed, output_csv>>

\* a plausible slip: the metric's exception swallowed, the run goes on
ValidateSwallow ==
    /\ pc = "validate"
    /\ IF HasSurvival(new_data) /\ ConcordanceRaises(new_data)
       THEN /\ pc' = "write"
            /\ failed_stage' = "validate"
            /\ UNCHANGED <<done, c_index_computed>>
       ELSE /\ Advance("validate", "write")
            /\ c_index_computed' = HasSurvival(new_data)
    /\ UNCHANGED <<missing_cols, model_components, input_table, new_data, pre_map,
                   output_csv>>

\* 6. the C-index, when Event and OS_Time are present
Validate ==
    /\ pc = "validate"
    /\ IF HasSurvival(new_data)
       THEN IF ConcordanceRaises(new_data)
            THEN /\ Abort("validate")
                 /\ UNCHANGED <<done, c_index_computed>>
            ELSE /\ Advance("validate", "write")
                 /\ c_index_computed' = TRUE
       ELSE /\ Advance("validate", "write")
            /\ c_index_computed' = FALSE
    /\ UNCHANGED <<missing_cols, model_components, input_table, new_data, pre_map,
                   output_csv>>

\* 7. new_data.to_csv(output_csv, index=False), then the closing prints.
\* The file may not open (the path is a directory, read-only): no file is
\* written and an earlier one stays. The write may stop at any byte (disk
\* full): a cut file. print(f"Results saved to: {output_csv}") may raise once
\* to_csv has returned (a path the console cannot encode): the whole file is
\* on disk and the function does not return.
Write ==
    /\ pc = "write"
    /\ \/ /\ Advance("write", "done")
          /\ output_csv' = WholeFile(new_data)
       \/ /\ Abort("write")
          /\ done' = done
          /\ \/ output_csv' = output_csv
             \/ output_csv' \in CutFiles(new_data)
             \/ output_csv' = WholeFile(new_data)
    /\ UNCHANGED <<missing_cols, model_components, input_table, new_data, pre_map,
                   c_index_computed>>

Next ==
    \/ LoadBundle
    \/ ReadInput
    \/ CheckFeatures
    \/ Preprocess
    \/ Predict
    \/ Group
    \/ Validate
    \/ Write

Spec == Init /\ [][Next]_vars

\* ------------------------------------------------- the grouper on its own
\* the run just after step 4 on an input of up to MaxLen rows
InitGroup ==
    /\ pc = "group"
    /\ done = SubSeq(StageOrder, 1, 5)
    /\ failed_stage = "none"
    /\ missing_cols = <<>>
    /\ model_components = GroupBundle
    /\ \E n \in 1..MaxLen : \E col \in [1..n -> ScoreCells] :
          input_table = MakeTable(n, [c \in {"T_Stage"} |-> col], <<>>)
    /\ pre_map = CategoricalImputed(model_components, input_table)
    /\ new_data = WithRiskScore(model_components,
                                Preprocessed(model_components, input_table))
    /\ c_index_computed = FALSE
    /\ output_csv = NoFile

NextGroup == Group

GroupSpec == InitGroup /\ [][NextGroup]_vars

\* ------------------------------------------------------------ properties
Ran(stage) == stage \in Range(done) \/ failed_stage = stage

Completed(stage) == stage \in Range(done)

BestFeatures == Range(model_components.best_features)

\* C1: when a best feature is no column of the input, the run aborts at the
\* check, the error lists exactly the absent best features, and nothing of
\* preprocessing, prediction or writing has happened; the check raises in no
\* other case.
C1_SchemaError ==
    LET absent == BestFeatures \ input_table.cols
    IN  /\ (Ran("check") /\ absent # {}) =>
              /\ failed_stage = "check"
              /\ Range(missing_cols) = absent
              /\ done = <<"load", "read">>
              /\ pre_map = EmptyTable
              /\ "Risk_Score" \notin new_data.cols
              /\ output_csv \in {NoFile, PriorFile}
        /\ failed_stage = "check" => absent # {}

C1_Witness ==
    /\ failed_stage = "check"
    /\ Len(model_components.best_features) = 2
    /\ Len(missing_cols) = 1

\* C2: when the hazard model is invoked no cell of a best_features column is
\* missing.
C2_NoMissingAtPredict ==
    pc = "predict" =>
        \A f \in BestFeatures : \A i \in 1..new_data.n : ~IsNaN(new_data.cell[f][i])

RiskScores == new_data.cell["Risk_Score"]

AllScored == \A i \in 1..new_data.n : ~IsNaN(RiskScores[i])

GroupLabelsUsed == {new_data.cell["Risk_Group"][i] : i \in 1..new_data.n}

\* C3: the label set follows the number of distinct scores: three or more give
\* every row one of Low, Medium, High; two give every row Low or High and both
\* occur; one gives every row Medium.
C3_LabelSetByCardinality ==
    (Ran("group") /\ AllScored) =>
        /\ "Risk_Group" \in new_data.cols
        /\ NUnique(RiskScores) >= 3 =>
               GroupLabelsUsed \subseteq {Str("Low"), Str("Medium"), Str("High")}
        /\ NUnique(RiskScores) = 2 => GroupLabelsUsed = {Str("Low"), Str("High")}
        /\ NUnique(RiskScores) = 1 => GroupLabelsUsed = {Str("Medium")}

\* C4: grouping never fails: for every vector of scores the step completes and
\* every row has a group label.
C4_GroupingNeverFails ==
    ("Risk_Score" \in new_data.cols /\ AllScored) =>
        /\ failed_stage # "group"
        /\ Completed("group") =>
               \A i \in 1..new_data.n : new_data.cell["Risk_Group"][i].k = "str"

\* C5: the concordance index is computed exactly when OS_Time and Event are
\* both columns of the input; with either absent the step is skipped without
\* raising; the step never changes the table.
C5_ValidationOptional ==
    /\ [](/\ Completed("validate") =>
                 (c_index_computed <=> SurvivalColumns \subseteq input_table.cols)
          /\ failed_stage = "validate" => SurvivalColumns \subseteq input_table.cols
          /\ ~Completed("validate") => ~c_index_computed)
    /\ [][pc = "validate" =>
              /\ new_data' = new_data
              /\ ~(SurvivalColumns \subseteq input_table.cols) => pc' = "write"]_vars

C5_Witness ==
    /\ Completed("validate")
    /\ ~c_index_computed
    /\ "Event" \in input_table.cols
    /\ "OS_Time" \notin input_table.cols

\* C6: in a column with a manual mapping every preprocessed cell is the code
\* of the value the mapping was applied to when that value is a key, and -1
\* when it is not (a still missing cell included).
C6_ManualMapping ==
    Completed("preprocess") =>
        \A c \in DOMAIN model_components.manual_mappings \cap pre_map.cols :
            \A i \in 1..pre_map.n :
                LET mapping == model_components.manual_mappings[c]
                    raw == pre_map.cell[c][i]
                IN  new_data.cell[c][i] =
                        IF raw \in DOMAIN mapping THEN Num(mapping[raw]) ELSE Num(-1)

C6_Witness ==
    /\ Completed("preprocess")
    /\ \E c \in DOMAIN model_components.manual_mappings \cap pre_map.cols :
           \E i, j \in 1..pre_map.n :
               /\ pre_map.cell[c][i] \in DOMAIN model_components.manual_mappings[c]
               /\ new_data.cell[c][i] = Num(0)
               /\ IsNaN(pre_map.cell[c][j])
               /\ new_data.cell[c][j] = Num(-1)

Rank(label) == CASE label = "Low" -> 1 [] label = "Medium" -> 2 [] label = "High" -> 3

\* C7: groups are monotonic in the score: a row with the lower or equal score
\* is never in a higher group, and rows of equal score share their group.
C7_MonotonicGroups ==
    "Risk_Group" \in new_data.cols =>
        \A i, j \in 1..new_data.n :
            (~IsNaN(RiskScores[i]) /\ ~IsNaN(RiskScores[j])
                /\ RiskScores[i].n <= RiskScores[j].n) =>
                /\ new_data.cell["Risk_Group"][i].k = "str"
                /\ new_data.cell["Risk_Group"][j].k = "str"
                /\ Rank(new_data.cell["Risk_Group"][i].s)
                       <= Rank(new_data.cell["Risk_Group"][j].s)
                /\ RiskScores[i].n = RiskScores[j].n =>
                       new_data.cell["Risk_Group"][i] = new_data.cell["Risk_Group"][j]

C7_Witness ==
    /\ "Risk_Group" \in new_data.cols
    /\ GroupLabelsUsed = {Str("Low"), Str("Medium"), Str("High")}
    /\ \E i, j \in 1..new_data.n : i # j /\ RiskScores[i] = RiskScores[j]

\* C8: ECOG_Score is never imputed: every cell that was missing, a sentinel
\* token or unparseable in the input is -1 after preprocessing, whatever lists
\* of the bundle name the column.
C8_ECOGNeverImputed ==
    (Completed("preprocess") /\ "ECOG_Score" \in new_data.cols) =>
        \A i \in 1..new_data.n :
            LET raw == input_table.cell["ECOG_Score"][i]
            IN  (IsNaN(raw) \/ IsToken(raw) \/ IsNaN(ToNumeric(raw))) =>
                    new_data.cell["ECOG_Score"][i] = Num(-1)

\* C9 as stated: no cell of the preprocessed table holds a sentinel token, for
\* every bundle.
C9_NoTokenAtPredict ==
    pc = "predict" =>
        \A c \in new_data.cols : \A i \in 1..new_data.n : ~IsToken(new_data.cell[c][i])

\* C9: no sentinel token of the input survives preprocessing: a cell of the
\* preprocessed table holds a token only where the input cell was missing or a
\* token, the column is a categorical feature, and the token is the fitted
\* fill value of the categorical imputer.
C9_TokensOnlyFromImputer ==
    Completed("preprocess") =>
        \A c \in new_data.cols \cap input_table.cols : \A i \in 1..new_data.n :
            IsToken(new_data.cell[c][i]) =>
                /\ c \in model_components.categorical_features
                /\ new_data.cell[c][i] = model_components.imputer_categorical.statistics
                /\ IsNaN(input_table.cell[c][i]) \/ IsToken(input_table.cell[c][i])

C9_Witness ==
    /\ Completed("preprocess")
    /\ \E c \in new_data.cols \cap input_table.cols : \E i \in 1..new_data.n :
           /\ IsToken(input_table.cell[c][i])
           /\ new_data.cell[c][i] = Str("T2")

IsPrefix(s, t) == Len(s) <= Len(t) /\ s = SubSeq(t, 1, Len(s))

\* C10: the stages complete once each in the fixed order; an exception in any
\* stage ends the run at that stage and nothing runs after it; no stage but
\* the write creates or changes the file, and the write starts only when the
\* seven stages before it have completed, so a run that fails before the write
\* leaves the directory as it found it; a run that completes leaves the whole
\* result table in the file.
C10_OneShotInOrder ==
    /\ [](/\ IsPrefix(done, StageOrder)
          /\ pc = "write" => done = SubSeq(StageOrder, 1, 7)
          /\ done = StageOrder =>
                 /\ failed_stage = "none"
                 /\ output_csv = WholeFile(new_data)
          /\ failed_stage # "none" =>
                 /\ pc = "failed"
                 /\ Len(done) < Len(StageOrder)
                 /\ failed_stage = StageOrder[Len(done) + 1]
                 /\ failed_stage # "write" => output_csv \in {NoFile, PriorFile}
          /\ pc = "failed" => failed_stage # "none")
    /\ [][pc # "failed" /\ pc # "done"]_vars
    /\ [][output_csv' # output_csv => pc = "write"]_vars

\* a run that found an earlier file and failed at the C-index
C10_Witness ==
    /\ pc = "failed"
    /\ failed_stage = "validate"
    /\ done = SubSeq(StageOrder, 1, 6)
    /\ output_csv = PriorFile

====
